---- MODULE Spec2Model ----
(***************************************************************************)
(* Model of the conversion orchestration layer of FormatConverter:        *)
(* src/src/converters/{base,audio,video,image}_converter.py, with the      *)
(* /convert handler of src/src/routes/api.py and the file utilities of     *)
(* src/src/utils/file_utils.py.                                            *)
(*                                                                         *)
(* Spec:     the converter operations on every filesystem                  *)
(* SpecCmd:  the same operations on a valid filesystem, convert's keyword  *)
(*           arguments varied                                              *)
(* SpecApi:  two /convert requests handled at the same time                *)
(* SpecInfo: get_file_info on any path                                     *)
(* SpecHealth: one /convert request next to the health endpoint            *)
(* SpecSweep: cleanup_directory on any directory                           *)
(* SpecCli:  the resize command of the command line                        *)
(* SpecPaths: how the paths of a conversion resolve for the validations    *)
(*           and for the external tool                                     *)
(* SpecRace: two conversions on one output path, system call by system     *)
(*           call                                                          *)
(*                                                                         *)
(* The state is the part of the filesystem one converter call touches     *)
(* (the input path, the output directory, the file at output_path), the   *)
(* call in progress, the external invocations made so far and the value   *)
(* the call returned.  The external tool (ffmpeg / ffprobe) is the        *)
(* environment: each invocation ends in a nondeterministic outcome.       *)
(***************************************************************************)
EXTENDS Integers, Sequences, FiniteSets, TLC

(***************************************************************************)
(* Bounds                                                                  *)
(***************************************************************************)
\* largest file size (in KB) the external tool produces in the model
MaxSize == 2

\* largest size budget (target_size_kb) a caller passes in the model
MaxBudget == 2

(***************************************************************************)
(* Values                                                                  *)
(***************************************************************************)
\* writer: who wrote the file's content.  0: it was there before the call,
\* -1: validate_output_path's probe, k >= 1: the call's k-th transcoder run
NoFile == [exists |-> FALSE, size |-> 0, writable |-> FALSE, writer |-> 0]

File(size, writable, writer) ==
    [exists |-> TRUE, size |-> size, writable |-> writable, writer |-> writer]

\* the path tokens that appear in argument lists
InputPath == "input_path"

OutputPath == "output_path"

Converters == {"audio", "video", "image"}

\* audio_converter.py:18, video_converter.py:18, image_converter.py:18
AudioFormats == {"mp3", "wav", "flac", "aac", "ogg", "m4a"}

VideoFormats == {"mp4", "avi", "mov", "webm", "mkv"}

ImageFormats == {"jpg", "jpeg", "png", "webp", "gif", "bmp"}

InitialSupportedFormats_nobmp ==
    [c \in Converters |->
        IF c = "audio" THEN AudioFormats
        ELSE IF c = "video" THEN VideoFormats ELSE ImageFormats \ {"bmp"}]

\* self.supported_formats of the three converters, as set by __init__
InitialSupportedFormats ==
    [c \in Converters |->
        IF c = "audio" THEN AudioFormats
        ELSE IF c = "video" THEN VideoFormats ELSE ImageFormats]

\* the target formats a caller passes to a converter in the model
TargetFormats(c) ==
    IF c = "audio" THEN {"mp3", "wav", "xyz", "mp4"}
    ELSE IF c = "video" THEN {"mp4", "webm", "xyz", "mp3"}
    ELSE {"jpg", "jpeg", "webp", "png", "gif", "bmp", "tiff", "mp4"}

Qualities == {"low", "medium", "high", "ultra"}

\* str() of the integers that appear in argument lists
Str(n) ==
    CASE n = 0 -> "0" [] n = 1 -> "1" [] n = 2 -> "2" [] n = 3 -> "3"
      [] n = 5 -> "5" [] n = 7 -> "7" [] n = 9 -> "9" [] n = 10 -> "10" [] n = 15 -> "15"
      [] n = 20 -> "20" [] n = 25 -> "25" [] n = 28 -> "28" [] n = 30 -> "30" [] n = 40 -> "40"
      [] n = 50 -> "50" [] n = 60 -> "60" [] n = 70 -> "70" [] n = 80 -> "80"
      [] n = 90 -> "90" [] n = 4194304 -> "4194304" [] n = 8388608 -> "8388608"
      [] n = 16777216 -> "16777216" [] n = 2796202 -> "2796202"
      [] n = 5592405 -> "5592405" [] n = 480 -> "480" [] n = 640 -> "640"
      [] OTHER -> "n"

\* the Python values a caller passes as keyword arguments: None, an int, a
\* str or a tuple; s is str() of the value
PyNone == [t |-> "None", n |-> 0, s |-> "None"]

PyInt(n) == [t |-> "int", n |-> n, s |-> Str(n)]

PyStr(s) == [t |-> "str", n |-> 0, s |-> s]

\* the tuple (640, 480)
PyTuple == [t |-> "tuple", n |-> 0, s |-> "(640, 480)"]

\* bool(v)
Truthy(v) ==
    CASE v.t = "None" -> FALSE [] v.t = "int" -> v.n # 0
      [] v.t = "str" -> v.s # "" [] OTHER -> TRUE

\* a or b
Or(a, b) == IF Truthy(a) THEN a ELSE b

\* **kwargs of convert: PyNone stands for a key that is not passed
NoKwargs ==
    [bitrate |-> PyNone, sample_rate |-> PyNone, channels |-> PyNone,
     crf |-> PyNone, resolution |-> PyNone, fps |-> PyNone, audio_codec |-> PyNone,
     qscale |-> PyNone]

\* the keyword arguments a caller passes to a converter's convert in the model
Kwargs(c) ==
    IF c = "audio"
    THEN {[NoKwargs EXCEPT !.bitrate = b, !.sample_rate = r, !.channels = n] :
            b \in {PyNone, PyInt(0), PyStr("64k")}, r \in {PyNone, PyStr("22050")},
            n \in {PyNone, PyStr("1")}}
    ELSE IF c = "video"
    THEN {[NoKwargs EXCEPT !.crf = q, !.resolution = r, !.fps = f, !.audio_codec = a] :
            q \in {PyNone, PyInt(0), PyInt(28)}, r \in {PyNone, PyStr("320:-1")},
            f \in {PyNone, PyInt(30)}, a \in {PyNone, PyStr("aac")}}
    ELSE {[NoKwargs EXCEPT !.qscale = q, !.resolution = r] :
            q \in {PyNone, PyInt(0), PyInt(7)}, r \in {PyNone, PyStr("320:-1"), PyTuple}}

VARIABLES
    fs,         \* filesystem: [inp, dir, dirW, out, frames]
    fs0,        \* the filesystem when the call in progress was made
    supported,  \* supported_formats of each converter
    call,       \* the call in progress: [op, conv, fmt, quality, budget]
    pc,         \* "idle", "run", "ladder", "done"
    idx,        \* number of ladder entries already attempted
    calls,      \* argument lists handed to external processes, in order
    failed,     \* number of transcoder runs run_ffmpeg_command reported failed
    lastRun,    \* the last transcoder run: outcome, return value, size seen
    minSize,    \* smallest output size measured so far (0: none)
    result,     \* the value the call returned, or that it raised
    video_info,     \* what get_video_info returned to compress_video
    req,        \* the /convert requests: each request's position and locals
    store,      \* the files in the upload and converted folders
    info,       \* the last call of get_file_info: its input and what it returned
    health,     \* the last call of health_check: what it saw and what it answered
    sweep,      \* the last call of cleanup_directory: the directory before and after
    paths,      \* the last conversion's paths: as validated and as the tool resolved them
    race        \* two conversions on one output path: the file and each one's position

vars == <<fs, fs0, supported, call, pc, idx, calls, failed, lastRun, minSize, result, video_info,
          req, store, info, health, sweep, paths, race>>

\* the state of the HTTP layer and of the file utilities
apiVars == <<req, store, info, health, sweep, paths, race>>

\* the state of the endpoints and utilities next to /convert
utilVars == <<health, sweep, paths, race>>

\* the state of the converters
convVars == <<fs, fs0, supported, call, pc, idx, calls, failed, lastRun, minSize, result,
              video_info>>

(***************************************************************************)
(* Filesystem primitives                                                   *)
(***************************************************************************)
\* a process can (re)write the file at output_path: overwrite an existing
\* writable file, or create one in an existing writable directory
CanWrite(f) ==
    IF f.out.exists THEN f.out.writable ELSE (f.dir = "exists" /\ f.dirW)

\* open(output_path, 'w'): creates or truncates; raises when not permitted
OpenW(f, who) ==
    IF CanWrite(f)
    THEN [ok |-> TRUE, fs |-> [f EXCEPT !.out = File(0, TRUE, who)]]
    ELSE [ok |-> FALSE, fs |-> f]

\* os.remove(output_path): needs a writable directory; raises otherwise.
\* Where output_path names the input file (f.same), the input is gone with it.
OsRemove(f) ==
    IF f.out.exists /\ f.dirW
    THEN [ok |-> TRUE, fs |-> [f EXCEPT !.out = NoFile,
                                       !.inp = IF f.same THEN "missing" ELSE @]]
    ELSE [ok |-> FALSE, fs |-> f]

\* os.makedirs(output_dir, exist_ok=True)
MakeDirs(f) ==
    IF f.dir = "exists" THEN [ok |-> TRUE, fs |-> f]
    ELSE IF f.dir = "creatable"
    THEN [ok |-> TRUE, fs |-> [f EXCEPT !.dir = "exists", !.dirW = TRUE]]
    ELSE [ok |-> FALSE, fs |-> f]

(***************************************************************************)
(* BaseConverter                                                           *)
(***************************************************************************)
\* a returned (success, message) pair; stderr is the tool's text the message
\* quotes, value the number it quotes, formats a returned format list
Ret(success, msg) ==
    [raised |-> FALSE, success |-> success, msg |-> msg, stderr |-> "", value |-> 0,
     formats |-> {}]

\* the call let an exception reach its caller
Raised(msg) ==
    [raised |-> TRUE, success |-> FALSE, msg |-> msg, stderr |-> "", value |-> 0,
     formats |-> {}]

NoResult == Ret(FALSE, "pending")

validate_input_file(f) ==
    IF f.inp = "missing" THEN Ret(FALSE, "Input file not found")
    ELSE IF f.inp = "dir" THEN Ret(FALSE, "Input path is not a file")
    ELSE IF f.inp = "unreadable" THEN Ret(FALSE, "Cannot read input file")
    ELSE Ret(TRUE, "")

validate_output_path_keep(f) ==
    LET mk == IF f.dir # "exists" THEN MakeDirs(f) ELSE [ok |-> TRUE, fs |-> f]
        f1 == mk.fs
        op == OpenW(f1, -1)
    IN  IF ~mk.ok
        THEN [ret |-> Ret(FALSE, "Cannot create output directory"), fs |-> f1]
        ELSE IF f1.out.exists
        THEN [ret |-> Ret(f1.out.writable,
                          IF f1.out.writable THEN ""
                          ELSE "Cannot write to existing output file"), fs |-> f1]
        ELSE [ret |-> Ret(op.ok, IF op.ok THEN "" ELSE "Cannot write to output path"),
              fs |-> op.fs]

validate_output_path(f) ==
    LET mk == IF f.dir # "exists" THEN MakeDirs(f) ELSE [ok |-> TRUE, fs |-> f]
        f1 == mk.fs
    IN  IF ~mk.ok
        THEN [ret |-> Ret(FALSE, "Cannot create output directory"), fs |-> f1]
        ELSE IF f1.out.exists
        THEN IF ~f1.out.writable
             THEN [ret |-> Ret(FALSE, "Cannot write to existing output file"), fs |-> f1]
             ELSE [ret |-> Ret(TRUE, ""), fs |-> f1]
        ELSE LET op == OpenW(f1, -1)
                 rm == OsRemove(op.fs)
             IN  IF ~op.ok
                 THEN [ret |-> Ret(FALSE, "Cannot write to output path"), fs |-> op.fs]
                 ELSE IF ~rm.ok
                 THEN [ret |-> Ret(FALSE, "Cannot write to output path"), fs |-> rm.fs]
                 ELSE [ret |-> Ret(TRUE, ""), fs |-> rm.fs]

\* subprocess.run's possible ends, seen from run_ffmpeg_command
\*   kind "exit": the process ran to completion with exit code `code`
\*   kind "timeout": subprocess.TimeoutExpired
\*   kind "oserror": the process could not be started
run_ffmpeg_command_stderr(o) ==
    [ok |-> o.kind = "exit" /\ o.code = 0 /\ o.stderr = "",
     stdout |-> o.stdout, stderr |-> o.stderr]

run_ffmpeg_command_generic(o) ==
    IF o.kind = "exit"
    THEN [ok |-> o.code = 0, stdout |-> o.stdout, stderr |-> o.stderr]
    ELSE [ok |-> FALSE, stdout |-> "", stderr |-> "Error running FFmpeg command"]

run_ffmpeg_command(o) ==
    IF o.kind = "exit"
    THEN IF o.code = 0
         THEN [ok |-> TRUE, stdout |-> o.stdout, stderr |-> o.stderr]
         ELSE [ok |-> FALSE, stdout |-> o.stdout, stderr |-> o.stderr]
    ELSE IF o.kind = "timeout"
    THEN [ok |-> FALSE, stdout |-> "", stderr |-> "FFmpeg command timed out"]
    ELSE [ok |-> FALSE, stdout |-> "", stderr |-> "Error running FFmpeg command"]

cleanup_on_error_skip(f) == f

cleanup_on_error(f) ==
    IF f.out.exists THEN OsRemove(f).fs ELSE f

(***************************************************************************)
(* The external transcoder                                                 *)
(***************************************************************************)
StdTexts == {"", "text"}

\* what one run of the transcoder can come to on filesystem f: it can exit 0
\* only if it could read the input; it can touch the output only if it could
\* read the input and may write the output path; with exit 0 it has either
\* written a complete file of some size or no file at all; otherwise it may
\* leave a partial (here: empty) file behind
ToolOutcomes(f) ==
    LET readable == f.inp = "file"
        writes == readable /\ CanWrite(f)
    IN  {[kind |-> "exit", code |-> 0, stdout |-> "", stderr |-> e, write |-> "full", size |-> s] :
            e \in (IF writes THEN StdTexts ELSE {}), s \in 1..MaxSize}
        \cup
        {[kind |-> "exit", code |-> 0, stdout |-> t, stderr |-> "", write |-> "none", size |-> 0] :
            t \in (IF readable THEN StdTexts ELSE {})}
        \cup
        {[kind |-> "exit", code |-> 1, stdout |-> "", stderr |-> e, write |-> w, size |-> 0] :
            e \in StdTexts, w \in (IF writes THEN {"none", "partial"} ELSE {"none"})}
        \cup
        {[kind |-> "timeout", code |-> 0, stdout |-> "", stderr |-> "", write |-> w, size |-> 0] :
            w \in (IF writes THEN {"none", "partial"} ELSE {"none"})}
        \cup
        {[kind |-> "oserror", code |-> 0, stdout |-> "", stderr |-> "", write |-> "none", size |-> 0]}

\* the filesystem after the k-th transcoder run of the call ended in o
ToolEffect(f, o, k) ==
    IF o.write = "full" THEN [f EXCEPT !.out = File(o.size, TRUE, k)]
    ELSE IF o.write = "partial" THEN [f EXCEPT !.out = File(0, TRUE, k)]
    ELSE f

\* one transcoder run as its caller sees it: the outcome o, what
\* run_ffmpeg_command returned for it, and the size of the file at
\* output_path on the resulting filesystem f (-1: there is none)
Run(o, r, f) == [o |-> o, r |-> r, size |-> IF f.out.exists THEN f.out.size ELSE -1]

NoRun == [o |-> [kind |-> "none", code |-> 0, stdout |-> "", stderr |-> "", write |-> "none", size |-> 0],
          r |-> [ok |-> FALSE, stdout |-> "", stderr |-> ""], size |-> -1]

(***************************************************************************)
(* Config and the command builders                                         *)
(***************************************************************************)
AUDIO_QUALITY_PRESETS_lowest(quality) ==
    CASE quality = "low" -> "128k" [] quality = "medium" -> "192k"
      [] quality = "high" -> "320k" [] OTHER -> "128k"

\* Config.AUDIO_QUALITY_PRESETS.get(quality, '192k')
AUDIO_QUALITY_PRESETS(quality) ==
    CASE quality = "low" -> "128k" [] quality = "medium" -> "192k"
      [] quality = "high" -> "320k" [] OTHER -> "192k"

\* Config.VIDEO_QUALITY_PRESETS.get(quality, '20')
VIDEO_QUALITY_PRESETS(quality) ==
    CASE quality = "low" -> "23" [] quality = "medium" -> "20"
      [] quality = "high" -> "18" [] OTHER -> "20"

\* the codec arguments shared by the audio operations
AudioCodecArgs(fmt, bitrate) ==
    CASE fmt = "mp3" -> <<"-c:a", "libmp3lame", "-b:a", bitrate>>
      [] fmt = "wav" -> <<"-c:a", "pcm_s16le">>
      [] fmt = "flac" -> <<"-c:a", "flac">>
      [] fmt = "aac" -> <<"-c:a", "aac", "-b:a", bitrate>>
      [] fmt = "ogg" -> <<"-c:a", "libvorbis", "-b:a", bitrate>>
      [] fmt = "m4a" -> <<"-c:a", "aac", "-b:a", bitrate>>
      [] OTHER -> <<>>

\* kwargs.get(key, default)
Get(v, default) == IF v = PyNone THEN default ELSE v

Audio_build_ffmpeg_command(fmt, quality, kw) ==
    LET bitrate == Or(kw.bitrate, PyStr(AUDIO_QUALITY_PRESETS(quality)))
        sample_rate == Get(kw.sample_rate, PyStr("44100"))
        channels == Get(kw.channels, PyStr("2"))
    IN  <<"ffmpeg", "-i", InputPath, "-y">>
            \o AudioCodecArgs(fmt, bitrate.s)
            \o <<"-ar", sample_rate.s, "-ac", channels.s>> \o <<OutputPath>>

\* f'scale={resolution}'
ScaleFilter(resolution) ==
    CASE resolution.s = "320:-1" -> "scale=320:-1"
      [] resolution.s = "(640, 480)" -> "scale=(640, 480)" [] OTHER -> "scale="

Video_build_ffmpeg_command(fmt, quality, kw) ==
    LET crf == Or(kw.crf, PyStr(VIDEO_QUALITY_PRESETS(quality)))
        audio_codec == Get(kw.audio_codec, PyStr("copy"))
    IN  <<"ffmpeg", "-i", InputPath, "-y">>
            \o (IF fmt \in {"mp4", "avi", "mov", "mkv"}
                THEN <<"-c:v", "libx264", "-preset", "medium">>
                ELSE IF fmt = "webm" THEN <<"-c:v", "libvpx-vp9", "-crf", "30">> ELSE <<>>)
            \o (IF fmt \in {"mp4", "avi", "mov", "mkv"} THEN <<"-crf", crf.s>> ELSE <<>>)
            \o (IF Truthy(kw.resolution) THEN <<"-vf", ScaleFilter(kw.resolution)>> ELSE <<>>)
            \o (IF Truthy(kw.fps) THEN <<"-r", kw.fps.s>> ELSE <<>>)
            \o (IF audio_codec.s # "copy" THEN <<"-c:a", audio_codec.s>> ELSE <<"-c:a", "copy">>)
            \o <<OutputPath>>

_get_quality_qscale(quality, fmt) ==
    IF fmt \in {"jpg", "jpeg"}
    THEN (CASE quality = "low" -> 25 [] quality = "high" -> 5 [] OTHER -> 15)
    ELSE IF fmt = "webp"
    THEN (CASE quality = "low" -> 30 [] quality = "high" -> 90 [] OTHER -> 60)
    ELSE (CASE quality = "low" -> 20 [] quality = "high" -> 5 [] OTHER -> 10)

\* the quality arguments shared by the image operations
ImageQualityArgs(fmt, qscale) ==
    IF fmt \in {"jpg", "jpeg"} THEN <<"-q:v", Str(qscale)>>
    ELSE IF fmt = "webp" THEN <<"-quality", Str(qscale)>>
    ELSE <<>>

Image_build_ffmpeg_command_tail(fmt, quality, kw) ==
    LET qscale == Or(kw.qscale, PyInt(_get_quality_qscale(quality, fmt)))
    IN  <<"ffmpeg", "-i", InputPath, "-y">>
            \o ImageQualityArgs(fmt, qscale.n)
            \o <<OutputPath>>
            \o (IF Truthy(kw.resolution) THEN <<"-vf", "scale=320:-1">> ELSE <<>>)

\* f'scale={width}:{height}' for a tuple, f'scale={resolution}' otherwise
ImageScaleFilter(resolution) ==
    IF resolution.t = "tuple" THEN "scale=640:480" ELSE ScaleFilter(resolution)

Image_build_ffmpeg_command(fmt, quality, kw) ==
    LET qscale == Or(kw.qscale, PyInt(_get_quality_qscale(quality, fmt)))
    IN  <<"ffmpeg", "-i", InputPath, "-y">>
            \o ImageQualityArgs(fmt, qscale.n)
            \o (IF Truthy(kw.resolution) THEN <<"-vf", ImageScaleFilter(kw.resolution)>> ELSE <<>>)
            \o <<OutputPath>>

_build_ffmpeg_command(conv, fmt, quality, kw) ==
    IF conv = "audio" THEN Audio_build_ffmpeg_command(fmt, quality, kw)
    ELSE IF conv = "video" THEN Video_build_ffmpeg_command(fmt, quality, kw)
    ELSE Image_build_ffmpeg_command(fmt, quality, kw)

(***************************************************************************)
(* File utilities (utils/file_utils.py) and the values of the HTTP layer   *)
(***************************************************************************)
\* a file name: the part before the last dot and the part after it
\* (ext = "": the name has no dot)
Name(stem, ext) == [stem |-> stem, ext |-> ext]

\* str.lower() of the extensions that occur
Lower(ext) ==
    CASE ext = "MP4" -> "mp4" [] ext = "MP3" -> "mp3" [] ext = "PNG" -> "png"
      [] OTHER -> ext

\* Config.ALLOWED_EXTENSIONS
ALLOWED_EXTENSIONS ==
    {"mp3", "wav", "flac", "aac", "ogg", "m4a", "mp4", "avi", "mov", "wmv", "flv",
     "mkv", "webm", "jpg", "jpeg", "png", "gif", "bmp", "tiff", "webp"}

allowed_file(filename, allowed_extensions) ==
    filename.ext # "" /\ Lower(filename.ext) \in allowed_extensions

\* werkzeug's secure_filename: characters outside [A-Za-z0-9_.-] are dropped,
\* then leading and trailing dots and underscores are stripped
secure_filename(filename) ==
    LET stem == IF filename.stem = "~" THEN "" ELSE filename.stem
    IN  IF stem = "" THEN Name(filename.ext, "") ELSE Name(stem, filename.ext)

\* the extension sets of get_file_info, without the dot
AudioExtensions == {"mp3", "wav", "flac", "aac", "ogg", "m4a"}

VideoExtensions == {"mp4", "avi", "mov", "wmv", "flv", "mkv", "webm"}

ImageExtensions == {"jpg", "jpeg", "png", "gif", "bmp", "tiff", "webp"}

\* what the metadata probe of get_file_info (mutagen for audio, ffprobe for
\* video and image) can come to: the tool is absent, exits nonzero, times
\* out, prints malformed or empty output, or prints metadata that may lack a
\* duration and may lack a visual stream
InfoProbes ==
    {[kind |-> k, hasDuration |-> FALSE, hasVisual |-> FALSE] :
        k \in {"absent", "nonzero", "timeout", "malformed", "empty"}}
    \cup {[kind |-> "ok", hasDuration |-> d, hasVisual |-> v] : d, v \in BOOLEAN}

\* the dicts the three probes return: the keys they set
_get_audio_info(p) ==
    [type |-> "audio", duration |-> p.kind = "ok" /\ p.hasDuration, dims |-> FALSE]

_get_video_info(p) ==
    IF p.kind = "ok"
    THEN [type |-> "video", duration |-> p.hasDuration, dims |-> p.hasVisual]
    ELSE [type |-> "video", duration |-> FALSE, dims |-> FALSE]

_get_image_info(p) ==
    IF p.kind = "ok" /\ p.hasVisual
    THEN [type |-> "image", duration |-> FALSE, dims |-> TRUE]
    ELSE [type |-> "image", duration |-> FALSE, dims |-> FALSE]

get_file_info_probed(f, p) ==
    LET file_extension == Lower(f.ext)
        probed == IF file_extension \in AudioExtensions THEN _get_audio_info(p)
                  ELSE IF file_extension \in VideoExtensions THEN _get_video_info(p)
                  ELSE IF file_extension \in ImageExtensions THEN _get_image_info(p)
                  ELSE [type |-> "unknown", duration |-> FALSE, dims |-> FALSE]
    IN  IF ~f.present
        THEN [type |-> "unknown", size |-> 0, duration |-> FALSE, dims |-> FALSE,
              error |-> TRUE, raised |-> FALSE]
        ELSE IF p.kind = "ok"
        THEN [type |-> probed.type, size |-> f.size, duration |-> probed.duration,
              dims |-> probed.dims, error |-> FALSE, raised |-> FALSE]
        ELSE [type |-> "unknown", size |-> f.size, duration |-> FALSE, dims |-> FALSE,
              error |-> FALSE, raised |-> FALSE]

\* get_file_info on a file f = [present, size, ext] (ext: what follows the last
\* dot of the path's last component) when the probe comes to p
get_file_info(f, p) ==
    LET file_extension == Lower(f.ext)
        probed == IF file_extension \in AudioExtensions THEN _get_audio_info(p)
                  ELSE IF file_extension \in VideoExtensions THEN _get_video_info(p)
                  ELSE IF file_extension \in ImageExtensions THEN _get_image_info(p)
                  ELSE [type |-> "unknown", duration |-> FALSE, dims |-> FALSE]
    IN  IF ~f.present
        THEN \* os.path.getsize raises: the except branch
             [type |-> "unknown", size |-> 0, duration |-> FALSE, dims |-> FALSE,
              error |-> TRUE, raised |-> FALSE]
        ELSE [type |-> probed.type, size |-> f.size, duration |-> probed.duration,
              dims |-> probed.dims, error |-> FALSE, raised |-> FALSE]

NoInfo ==
    [f |-> [present |-> FALSE, size |-> 0, ext |-> ""],
     p |-> [kind |-> "none", hasDuration |-> FALSE, hasVisual |-> FALSE],
     r |-> [type |-> "unknown", size |-> 0, duration |-> FALSE, dims |-> FALSE,
            error |-> FALSE, raised |-> FALSE]]

\* uuid.uuid4(): its first eight hexadecimal digits and the rest of it
UuidPrefixes == {"1b9d6bcd", "6ec0bd7f"}

UuidRests == {"-bbfd-4b2d-9b5d-ab8dfbbd4bed", "-11c0-43da-975e-2a8ad9ebae0b"}

Uuids == [prefix : UuidPrefixes, rest : UuidRests]

NoUuid == [prefix |-> "", rest |-> ""]

\* a path in one of the two folders: f"{id}_{name}" under uploads,
\* f"{stem}_{id}.{ext}" under converted
Path(folder, id, name) == [folder |-> folder, id |-> id, name |-> name]

NoPath == Path("", NoUuid, Name("", ""))

\* generate_unique_filename(original_filename, target_format), u being the
\* value uuid.uuid4() returns: only u's first eight digits enter the name
generate_unique_filename(original_filename, target_format, u) ==
    [id |-> [prefix |-> u.prefix, rest |-> ""],
     name |-> Name(original_filename.stem, target_format)]

\* the requests whose handlers may run at the same time
\* a path as the program writes it: absolute, or relative to the working
\* directory of the process that uses it; parts are its components
AbsPath(parts) == [abs |-> TRUE, parts |-> parts]

RelPath(parts) == [abs |-> FALSE, parts |-> parts]

\* os.path.join(folder, name)
os_path_join(folder, name) == [folder EXCEPT !.parts = @ \o <<name>>]

\* the location (components from the root) a path names for a process whose
\* working directory is at location cwd
Resolve(cwd, path) == IF path.abs THEN path.parts ELSE cwd \o path.parts

\* UPLOAD_FOLDER, CONVERTED_FOLDER, TEMP_FOLDER: the defaults of config.py
\* and values set through the environment ('.' is the path with no parts)
UploadFolders == {RelPath(<<"uploads">>), AbsPath(<<"srv", "uploads">>)}

ConvertedFolders == {RelPath(<<"converted">>), AbsPath(<<"srv", "converted">>)}

TempFolders == {RelPath(<<"temp">>), RelPath(<<>>), AbsPath(<<"srv", "temp">>)}

\* the working directory the service or the command line was started in
WorkingDirs == {<<>>, <<"app">>, <<"home", "user">>}

\* the input and output files named on the command line
CliInputs ==
    {RelPath(<<"in.mp3">>), RelPath(<<"media", "in.mp3">>), AbsPath(<<"data", "in.mp3">>),
     AbsPath(<<"app", "in.mp3">>)}

CliOutputs ==
    {RelPath(<<"out.wav">>), RelPath(<<"media", "out.wav">>), AbsPath(<<"data", "out.wav">>)}

\* self.config.TEMP_FOLDER on the Config object of config.py
Config_TEMP_FOLDER(TEMP_FOLDER) == [ok |-> TRUE, value |-> TEMP_FOLDER]

\* self.config.TEMP_FOLDER on current_app.config: flask's Config is a
\* mapping, its keys are not attributes; AttributeError
FlaskConfig_TEMP_FOLDER == [ok |-> FALSE, value |-> RelPath(<<>>)]

NoPaths ==
    [called |-> FALSE, caller |-> "", input_path |-> RelPath(<<>>),
     output_path |-> RelPath(<<>>), cwd |-> <<>>, temp |-> FlaskConfig_TEMP_FOLDER,
     ran |-> FALSE,
     checked_input |-> <<>>, checked_output |-> <<>>,
     tool_input |-> <<>>, tool_output |-> <<>>]

\* two conversions running at the same time on one output path
Conversions == {"c1", "c2"}

\* the file at that path: who created or last rewrote it, and whether it is
\* a validation's empty probe file or the transcoder's output
NoShared == [exists |-> FALSE, by |-> "", kind |-> ""]

\* at: each conversion's position in convert; harm: what its
\* validate_output_path did so far to a file the other conversion wrote
NoRace ==
    [file |-> NoShared, at |-> [c \in Conversions |-> "idle"],
     harm |-> [c \in Conversions |-> {}]]

\* a directory handed to cleanup_directory: each name is absent, a
\* subdirectory, or a regular file last modified `age` seconds ago
SweepNames == {"e1", "e2"}

SweepAges == {0, 3600, 3601, 7201}

SweepEntries ==
    {[kind |-> "none", age |-> 0], [kind |-> "dir", age |-> 0]}
        \cup {[kind |-> "file", age |-> a] : a \in SweepAges}

SweepDirectories == [SweepNames -> SweepEntries]

MaxAgeHours == {0, 1, 2}

\* os.time(): the os module has no such function; the attribute lookup
\* raises AttributeError
os_time == [raised |-> TRUE]

\* cleanup_directory(directory, max_age_hours): the directory as the call
\* leaves it; every exception ends the function silently
cleanup_directory(directory, max_age_hours) ==
    IF os_time.raised THEN directory
    ELSE LET max_age_seconds == max_age_hours * 3600
         IN  [e \in DOMAIN directory |->
                 IF directory[e].kind = "file" /\ directory[e].age > max_age_seconds
                 THEN [kind |-> "none", age |-> 0]
                 ELSE directory[e]]

NoSweep ==
    [called |-> FALSE, before |-> [e \in SweepNames |-> [kind |-> "none", age |-> 0]],
     max_age_hours |-> 0, after |-> [e \in SweepNames |-> [kind |-> "none", age |-> 0]]]

\* how one run of `ffmpeg -version` or `ffprobe -version` can end: exit code
\* 0, another exit code, FileNotFoundError, TimeoutExpired, another exception
VersionRuns == {"ok", "nonzero", "notfound", "timeout", "error"}

check_ffmpeg_available_ffmpegonly(ffmpeg, ffprobe) ==
    IF ffmpeg = "ok" THEN [ok |-> TRUE, msg |-> ""]
    ELSE [ok |-> FALSE, msg |-> "FFmpeg command failed"]

\* check_ffmpeg_available(): ffprobe is run only after ffmpeg exited 0
check_ffmpeg_available(ffmpeg, ffprobe) ==
    LET raised == IF ffmpeg = "ok" THEN ffprobe ELSE ffmpeg
    IN  IF ffmpeg = "nonzero" THEN [ok |-> FALSE, msg |-> "FFmpeg command failed"]
        ELSE IF ffmpeg = "ok" /\ ffprobe = "nonzero"
        THEN [ok |-> FALSE, msg |-> "FFprobe command failed"]
        ELSE IF ffmpeg = "ok" /\ ffprobe = "ok" THEN [ok |-> TRUE, msg |-> ""]
        ELSE IF raised = "notfound" THEN [ok |-> FALSE, msg |-> "FFmpeg not found in PATH"]
        ELSE IF raised = "timeout" THEN [ok |-> FALSE, msg |-> "FFmpeg command timed out"]
        ELSE [ok |-> FALSE, msg |-> "Error checking FFmpeg"]

NoHealth ==
    [called |-> FALSE, ffmpeg |-> "", ffprobe |-> "", upload_writable |-> FALSE,
     converted_writable |-> FALSE, status |-> "", error |-> "", code |-> 0]

Requests == {"r1", "r2"}

\* a request's locals in convert_file; invoked lists the converter operations
\* the handler has called, cleanups counts the calls of cleanup_on_error and
\* cleanup_temp_files made on the request's output_path, response is what the
\* handler returned
NoResponse == [status |-> 0, success |-> FALSE, error |-> ""]

NoRequest ==
    [at |-> "idle", file |-> Name("", ""), target_format |-> "", extract_audio |-> FALSE,
     is_available |-> "", upload_uuid |-> NoUuid, upload_path |-> NoPath,
     file_type |-> "", output_uuid |-> NoUuid, output_path |-> NoPath,
     invoked |-> <<>>, success |-> FALSE, error_message |-> "", cleanups |-> 0,
     response |-> NoResponse]

(***************************************************************************)
(* Initial state: the converters are constructed, no call has been made.   *)
(* The filesystem is whatever the caller's environment holds.              *)
(***************************************************************************)
InputStates == {"missing", "dir", "unreadable", "file"}

\* the file a caller may find at output_path before the call
PreFiles == {NoFile} \cup {File(s, w, 0) : s \in 1..MaxSize, w \in BOOLEAN}

\* same: the caller passed the input path as output path too, so the file
\* at output_path is the input file
Filesystems ==
    {[inp |-> i, dir |-> "exists", dirW |-> dw, out |-> p, frames |-> FALSE, same |-> FALSE] :
        i \in InputStates, dw \in BOOLEAN, p \in PreFiles}
    \cup
    {[inp |-> i, dir |-> d, dirW |-> FALSE, out |-> NoFile, frames |-> FALSE, same |-> FALSE] :
        i \in InputStates, d \in {"creatable", "uncreatable"}}
    \cup
    {[inp |-> "file", dir |-> "exists", dirW |-> dw, out |-> p, frames |-> FALSE, same |-> TRUE] :
        dw \in BOOLEAN, p \in PreFiles \ {NoFile}}

\* the width, height, maintain_aspect and format options and the input
\* file's extension of a resize request
NoArgs ==
    [width |-> PyNone, height |-> PyNone, maintain_aspect |-> FALSE, format |-> PyNone,
     ext |-> ""]

NoProbe == [info |-> FALSE, hasDuration |-> FALSE, duration |-> 0]

NoCall ==
    [op |-> "none", conv |-> "none", fmt |-> "", quality |-> "", budget |-> 0,
     kw |-> NoKwargs, args |-> NoArgs]

Init ==
    /\ fs \in Filesystems
    /\ fs0 = fs
    /\ supported = InitialSupportedFormats
    /\ call = NoCall
    /\ pc = "idle"
    /\ idx = 0
    /\ calls = <<>>
    /\ failed = 0
    /\ lastRun = NoRun
    /\ minSize = 0
    /\ result = NoResult
    /\ video_info = NoProbe
    /\ req = [r \in Requests |-> NoRequest]
    /\ store = {}
    /\ info = NoInfo
    /\ health = NoHealth
    /\ sweep = NoSweep
    /\ paths = NoPaths
    /\ race = NoRace

(***************************************************************************)
(* Operations                                                              *)
(***************************************************************************)
\* a call that returns (or raises) before any external process is started
ReturnEarly(c, f, r) ==
    /\ call' = c
    /\ fs0' = fs
    /\ fs' = f
    /\ result' = r
    /\ pc' = "done"
    /\ UNCHANGED <<supported, idx, calls, failed, lastRun, minSize, video_info>>
    /\ UNCHANGED apiVars

\* the common tail of the single-invocation operations: run cmd on filesystem
\* f with outcome o; on failure clean up (where the code does) and return
\* failmsg with the tool's stderr
RunOnce(c, f, cmd, o, failmsg, cleanup) ==
    LET r == run_ffmpeg_command(o)
        f2 == ToolEffect(f, o, 1)
    IN  /\ call' = c
        /\ fs0' = fs
        /\ calls' = Append(calls, cmd)
        /\ lastRun' = Run(o, r, f2)
        /\ failed' = IF r.ok THEN failed ELSE failed + 1
        /\ IF r.ok
           THEN /\ fs' = f2
                /\ result' = Ret(TRUE, "")
           ELSE /\ fs' = (IF cleanup THEN cleanup_on_error(f2) ELSE f2)
                /\ result' = [Ret(FALSE, failmsg) EXCEPT !.stderr = r.stderr]
        /\ pc' = "done"
        /\ UNCHANGED <<supported, idx, minSize, video_info>>
        /\ UNCHANGED apiVars

\* AudioConverter.convert, VideoConverter.convert, ImageConverter.convert
convert(conv, fmt, quality, kw) ==
    LET c == [op |-> "convert", conv |-> conv, fmt |-> fmt, quality |-> quality, budget |-> 0,
              kw |-> kw, args |-> NoArgs]
        vi == validate_input_file(fs)
        vo == validate_output_path(fs)
    IN  /\ pc = "idle"
        /\ IF ~vi.success THEN ReturnEarly(c, fs, vi)
           ELSE IF ~vo.ret.success THEN ReturnEarly(c, vo.fs, vo.ret)
           ELSE IF fmt \notin supported[conv]
           THEN ReturnEarly(c, vo.fs, Ret(FALSE, "Unsupported target format"))
           ELSE \E o \in ToolOutcomes(vo.fs) :
                    RunOnce(c, vo.fs, _build_ffmpeg_command(conv, fmt, quality, kw), o,
                            "FFmpeg conversion failed", TRUE)

\* BaseConverter.validate_output_path, called on its own
ValidateOutputPath ==
    LET c == [NoCall EXCEPT !.op = "validate_output_path"]
        vo == validate_output_path(fs)
    IN  /\ pc = "idle"
        /\ ReturnEarly(c, vo.fs, vo.ret)

\* get_supported_formats of a converter
get_supported_formats(conv) ==
    LET c == [NoCall EXCEPT !.op = "get_supported_formats", !.conv = conv]
    IN  /\ pc = "idle"
        /\ ReturnEarly(c, fs, [Ret(TRUE, "") EXCEPT !.formats = supported[conv]])

\* the argument list AudioConverter.extract_audio_from_video builds
ExtractAudioCmd(fmt, quality) ==
    <<"ffmpeg", "-i", InputPath, "-vn", "-y">>
        \o AudioCodecArgs(fmt, AUDIO_QUALITY_PRESETS(quality)) \o <<OutputPath>>

\* AudioConverter.extract_audio_from_video
extract_audio_from_video(fmt, quality) ==
    LET c == [op |-> "extract_audio_from_video", conv |-> "audio", fmt |-> fmt,
              quality |-> quality, budget |-> 0, kw |-> NoKwargs, args |-> NoArgs]
        cmd == ExtractAudioCmd(fmt, quality)
    IN  /\ pc = "idle"
        /\ IF fmt \notin supported["audio"]
           THEN ReturnEarly(c, fs, Ret(FALSE, "Unsupported audio format"))
           ELSE \E o \in ToolOutcomes(fs) :
                    RunOnce(c, fs, cmd, o, "Audio extraction failed", TRUE)

\* AudioConverter.normalize_audio (target_format after the default from the
\* input's extension is applied)
normalize_audio(fmt) ==
    LET c == [op |-> "normalize_audio", conv |-> "audio", fmt |-> fmt,
              quality |-> "medium", budget |-> 0, kw |-> NoKwargs, args |-> NoArgs]
        cmd == <<"ffmpeg", "-i", InputPath, "-y", "-af", "loudnorm=I=-20.0:TP=-1.5:LRA=11">>
                   \o AudioCodecArgs(fmt, AUDIO_QUALITY_PRESETS("medium")) \o <<OutputPath>>
    IN  /\ pc = "idle"
        /\ IF fmt \notin supported["audio"]
           THEN ReturnEarly(c, fs, Ret(FALSE, "Unsupported target format"))
           ELSE \E o \in ToolOutcomes(fs) :
                    RunOnce(c, fs, cmd, o, "Audio normalization failed", TRUE)

\* the filter resize_image formats from its width and height arguments:
\* f'scale={width}:{height}', followed by the aspect modifier if asked for
ResizeFilter(width, height, maintain_aspect) ==
    LET wh == <<width.s, height.s>>
    IN  IF maintain_aspect
        THEN CASE wh = <<"640", "480">> -> "scale=640:480:force_original_aspect_ratio=decrease"
               [] wh = <<"640", "None">> -> "scale=640:None:force_original_aspect_ratio=decrease"
               [] wh = <<"None", "480">> -> "scale=None:480:force_original_aspect_ratio=decrease"
               [] wh = <<"0", "480">> -> "scale=0:480:force_original_aspect_ratio=decrease"
               [] OTHER -> "scale=W:H:force_original_aspect_ratio=decrease"
        ELSE CASE wh = <<"640", "480">> -> "scale=640:480"
               [] wh = <<"640", "None">> -> "scale=640:None"
               [] wh = <<"None", "480">> -> "scale=None:480"
               [] wh = <<"0", "480">> -> "scale=0:480"
               [] OTHER -> "scale=W:H"

\* ImageConverter.resize_image from its format check on, for the call c
resize_image_call(c, width, height, maintain_aspect, target_format) ==
    LET cmd == <<"ffmpeg", "-i", InputPath, "-y", "-vf",
                 ResizeFilter(width, height, maintain_aspect)>>
                   \o ImageQualityArgs(target_format, _get_quality_qscale("medium", target_format))
                   \o <<OutputPath>>
    IN  IF target_format \notin supported["image"]
        THEN ReturnEarly(c, fs, Ret(FALSE, "Unsupported target format"))
        ELSE \E o \in ToolOutcomes(fs) :
                 RunOnce(c, fs, cmd, o, "Image resize failed", TRUE)

\* ImageConverter.resize_image, called with some width W and height H
resize_image(fmt, maintain_aspect) ==
    LET c == [op |-> "resize_image", conv |-> "image", fmt |-> fmt,
              quality |-> "medium", budget |-> 0, kw |-> NoKwargs, args |-> NoArgs]
    IN  /\ pc = "idle"
        /\ resize_image_call(c, PyStr("W"), PyStr("H"), maintain_aspect, fmt)

\* ImageConverter.create_thumbnail
image_create_thumbnail(fmt) ==
    LET c == [op |-> "image_create_thumbnail", conv |-> "image", fmt |-> fmt,
              quality |-> "medium", budget |-> 0, kw |-> NoKwargs, args |-> NoArgs]
        cmd == <<"ffmpeg", "-i", InputPath, "-y", "-vf",
                 "scale=SIZE:force_original_aspect_ratio=decrease,pad=SIZE:(ow-iw)/2:(oh-ih)/2:white">>
                   \o ImageQualityArgs(fmt, _get_quality_qscale("medium", fmt))
                   \o <<OutputPath>>
    IN  /\ pc = "idle"
        /\ IF fmt \notin supported["image"]
           THEN ReturnEarly(c, fs, Ret(FALSE, "Unsupported target format"))
           ELSE \E o \in ToolOutcomes(fs) :
                    RunOnce(c, fs, cmd, o, "Thumbnail creation failed", TRUE)

\* VideoConverter.create_thumbnail
video_create_thumbnail ==
    LET c == [NoCall EXCEPT !.op = "video_create_thumbnail", !.conv = "video"]
        cmd == <<"ffmpeg", "-i", InputPath, "-ss", "00:00:01", "-vframes", "1",
                 "-vf", "scale=SIZE", "-y", OutputPath>>
    IN  /\ pc = "idle"
        /\ \E o \in ToolOutcomes(fs) :
               RunOnce(c, fs, cmd, o, "Thumbnail creation failed", TRUE)

\* VideoConverter.extract_frames: the frames go to their own paths under the
\* output directory (fs.frames), never to output_path; no cleanup on failure
extract_frames(format) ==
    LET c == [NoCall EXCEPT !.op = "extract_frames", !.conv = "video", !.fmt = format]
        mk == IF fs.dir # "exists" THEN MakeDirs(fs) ELSE [ok |-> TRUE, fs |-> fs]
        cmd == <<"ffmpeg", "-i", InputPath, "-vf", "fps=1", "-y",
                 IF format = "jpg" THEN "output_dir/frame_%04d.jpg"
                 ELSE "output_dir/frame_%04d.xyz">>
        fresh == [mk.fs EXCEPT !.out = NoFile]
    IN  /\ pc = "idle"
        /\ IF ~mk.ok
           THEN ReturnEarly(c, mk.fs, Raised("os.makedirs"))
           ELSE \E o \in ToolOutcomes(fresh) :
                    LET r == run_ffmpeg_command(o)
                    IN  /\ call' = c
                        /\ fs0' = fs
                        /\ calls' = Append(calls, cmd)
                        /\ lastRun' = Run(o, r, mk.fs)
                        /\ failed' = IF r.ok THEN failed ELSE failed + 1
                        /\ fs' = [mk.fs EXCEPT !.frames = (o.write # "none")]
                        /\ result' = IF r.ok THEN Ret(TRUE, "")
                                     ELSE [Ret(FALSE, "Frame extraction failed")
                                              EXCEPT !.stderr = r.stderr]
                        /\ pc' = "done"
                        /\ UNCHANGED <<supported, idx, minSize, video_info>>
                        /\ UNCHANGED apiVars

\* what VideoConverter.get_video_info (one run of ffprobe) can return:
\* None, or a dict whose 'duration' is None or a float
ProbeDurations == {0, 1, 2, 3}

ProbeOutcomes(f) ==
    {[info |-> FALSE, hasDuration |-> FALSE, duration |-> 0]}
    \cup (IF f.inp = "file"
          THEN {[info |-> TRUE, hasDuration |-> FALSE, duration |-> 0]}
               \cup {[info |-> TRUE, hasDuration |-> TRUE, duration |-> d] : d \in ProbeDurations}
          ELSE {})

TargetSizesMb == {1, 2}

\* VideoConverter.compress_video
compress_video(target_size_mb) ==
    LET c == [NoCall EXCEPT !.op = "compress_video", !.conv = "video",
                            !.budget = target_size_mb]
        probe == <<"ffprobe", "-v", "quiet", "-print_format", "json",
                   "-show_format", "-show_streams", InputPath>>
    IN  /\ pc = "idle"
        /\ UNCHANGED apiVars
        /\ \E p \in ProbeOutcomes(fs) :
             IF ~p.info \/ ~p.hasDuration \/ p.duration <= 0
             THEN /\ call' = c
                  /\ fs0' = fs
                  /\ calls' = Append(calls, probe)
                  /\ result' = IF ~p.info THEN Ret(FALSE, "Could not get video information")
                               ELSE IF ~p.hasDuration THEN Raised("TypeError")
                               ELSE Ret(FALSE, "Invalid video duration")
                  /\ pc' = "done"
                  /\ video_info' = p
                  /\ UNCHANGED <<fs, supported, idx, failed, lastRun, minSize>>
             ELSE LET target_size_bits == target_size_mb * 8 * 1024 * 1024
                      target_bitrate == target_size_bits \div p.duration
                      cmd == <<"ffmpeg", "-i", InputPath, "-y", "-c:v", "libx264",
                               "-preset", "medium", "-b:v", Str(target_bitrate),
                               "-c:a", "aac", "-b:a", "128k", OutputPath>>
                  IN  \E o \in ToolOutcomes(fs) :
                          LET r == run_ffmpeg_command(o)
                              f2 == ToolEffect(fs, o, 1)
                          IN  /\ call' = c
                              /\ fs0' = fs
                              /\ calls' = calls \o <<probe, cmd>>
                              /\ lastRun' = Run(o, r, f2)
                              /\ failed' = IF r.ok THEN failed ELSE failed + 1
                              /\ fs' = IF r.ok THEN f2 ELSE cleanup_on_error(f2)
                              /\ result' = IF r.ok THEN Ret(TRUE, "")
                                           ELSE [Ret(FALSE, "Video compression failed")
                                                    EXCEPT !.stderr = r.stderr]
                              /\ pc' = "done"
                              /\ video_info' = p
                              /\ UNCHANGED <<supported, idx, minSize>>

\* the settings ImageConverter.compress_image walks through: the initial
\* one of compress_image, then the list of _compress_with_lower_quality
InitialSetting(fmt) ==
    IF fmt \in {"jpg", "jpeg"} THEN <<"-q:v", Str(5)>>
    ELSE IF fmt = "webp" THEN <<"-quality", Str(90)>>
    ELSE IF fmt = "png" THEN <<"-compression_level", "9">>
    ELSE <<>>

LowerQualities(fmt) ==
    IF fmt \in {"jpg", "jpeg"} THEN <<10, 15, 20, 25, 30>>
    ELSE IF fmt = "webp" THEN <<80, 70, 60, 50, 40, 30>>
    ELSE <<>>

\* the argument list of the (k+1)-th invocation of compress_image
CompressCmd(fmt, k) ==
    IF k = 0
    THEN <<"ffmpeg", "-i", InputPath, "-y">> \o InitialSetting(fmt) \o <<OutputPath>>
    ELSE <<"ffmpeg", "-i", InputPath, "-y",
           IF fmt = "webp" THEN "-quality" ELSE "-q:v",
           Str(LowerQualities(fmt)[k]), OutputPath>>

CouldNotCompress_smallest(target_size_kb) ==
    [Ret(FALSE, "Could not compress image to target size") EXCEPT !.value = minSize]

CouldNotCompress(target_size_kb) ==
    [Ret(FALSE, "Could not compress image to target size") EXCEPT !.value = target_size_kb]

\* ImageConverter.compress_image up to its first invocation
compress_image(fmt, target_size_kb) ==
    LET c == [op |-> "compress_image", conv |-> "image", fmt |-> fmt,
              quality |-> "", budget |-> target_size_kb, kw |-> NoKwargs, args |-> NoArgs]
    IN  /\ pc = "idle"
        /\ IF fmt \notin supported["image"]
           THEN ReturnEarly(c, fs, Ret(FALSE, "Unsupported target format"))
           ELSE /\ call' = c
                /\ fs0' = fs
                /\ pc' = "attempt"
                /\ idx' = 0
                /\ UNCHANGED <<fs, supported, calls, failed, lastRun, minSize, result, video_info>>
                /\ UNCHANGED apiVars

SizeMet_strict(output_size_kb, target_size_kb) == output_size_kb < target_size_kb

\* output_size_kb <= target_size_kb
SizeMet(output_size_kb, target_size_kb) == output_size_kb <= target_size_kb

\* the smaller of two sizes, 0 standing for "none yet"
Min2(a, b) == IF a = 0 THEN b ELSE IF b < a THEN b ELSE a

\* one invocation of compress_image (idx = 0, image_converter.py:238-254) or
\* of _compress_with_lower_quality (idx >= 1, one turn of its loop), with
\* everything the code does until the next invocation or the return
Attempt ==
    /\ pc = "attempt"
    /\ UNCHANGED apiVars
    /\ \E o \in ToolOutcomes(fs) :
         LET fmt == call.fmt
             r == run_ffmpeg_command(o)
             f2 == ToolEffect(fs, o, idx + 1)
             last == idx = Len(LowerQualities(fmt))
         IN  /\ calls' = Append(calls, CompressCmd(fmt, idx))
             /\ lastRun' = Run(o, r, f2)
             /\ failed' = IF r.ok THEN failed ELSE failed + 1
             /\ UNCHANGED <<fs0, supported, call, video_info>>
             /\ IF r.ok /\ ~f2.out.exists
                THEN \* os.path.getsize raises FileNotFoundError
                     /\ fs' = f2
                     /\ result' = Raised("FileNotFoundError")
                     /\ pc' = "done"
                     /\ UNCHANGED <<idx, minSize>>
                ELSE IF r.ok /\ SizeMet(f2.out.size, call.budget)
                THEN /\ minSize' = Min2(minSize, f2.out.size)
                     /\ fs' = f2
                     /\ result' = Ret(TRUE, "")
                     /\ pc' = "done"
                     /\ UNCHANGED idx
                ELSE IF ~r.ok /\ idx = 0
                THEN /\ fs' = cleanup_on_error(f2)
                     /\ result' = [Ret(FALSE, "Image compression failed")
                                      EXCEPT !.stderr = r.stderr]
                     /\ pc' = "done"
                     /\ UNCHANGED <<idx, minSize>>
                ELSE /\ minSize' = IF r.ok THEN Min2(minSize, f2.out.size) ELSE minSize
                     /\ fs' = IF r.ok /\ idx >= 1 THEN cleanup_on_error(f2) ELSE f2
                     /\ IF last
                        THEN /\ result' = CouldNotCompress(call.budget)
                             /\ pc' = "done"
                             /\ UNCHANGED idx
                        ELSE /\ idx' = idx + 1
                             /\ UNCHANGED <<pc, result>>

Next ==
    \/ \E conv \in Converters : \E fmt \in TargetFormats(conv), q \in Qualities :
            convert(conv, fmt, q, NoKwargs)
    \/ \E fmt \in TargetFormats("audio"), q \in Qualities : extract_audio_from_video(fmt, q)
    \/ \E fmt \in TargetFormats("audio") : normalize_audio(fmt)
    \/ \E fmt \in TargetFormats("image"), m \in BOOLEAN : resize_image(fmt, m)
    \/ \E fmt \in TargetFormats("image") : image_create_thumbnail(fmt)
    \/ video_create_thumbnail
    \/ \E format \in {"jpg", "xyz"} : extract_frames(format)
    \/ \E t \in TargetSizesMb : compress_video(t)
    \/ \E fmt \in TargetFormats("image"), b \in 0..MaxBudget : compress_image(fmt, b)
    \/ Attempt
    \/ ValidateOutputPath
    \/ \E conv \in Converters : get_supported_formats(conv)

Spec == Init /\ [][Next]_vars

(***************************************************************************)
(* The same operations called on a filesystem on which every validation    *)
(* passes, with the keyword arguments of convert varied.                   *)
(***************************************************************************)
\* the target formats a caller passes here: every format of the converter's
\* list and one outside it
CmdTargetFormats(c) == InitialSupportedFormats[c] \cup {"xyz"}

InitCmd ==
    /\ Init
    /\ fs = [inp |-> "file", dir |-> "exists", dirW |-> TRUE, out |-> NoFile, frames |-> FALSE,
            same |-> FALSE]

NextCmd ==
    \/ \E conv \in Converters : \E fmt \in CmdTargetFormats(conv), q \in Qualities, kw \in Kwargs(conv) :
            convert(conv, fmt, q, kw)
    \/ \E fmt \in CmdTargetFormats("audio"), q \in Qualities : extract_audio_from_video(fmt, q)
    \/ \E fmt \in CmdTargetFormats("audio") : normalize_audio(fmt)
    \/ \E fmt \in CmdTargetFormats("image"), m \in BOOLEAN : resize_image(fmt, m)
    \/ \E fmt \in CmdTargetFormats("image") : image_create_thumbnail(fmt)
    \/ video_create_thumbnail
    \/ \E format \in {"jpg", "xyz"} : extract_frames(format)
    \/ \E t \in TargetSizesMb : compress_video(t)
    \/ \E fmt \in TargetFormats("image"), b \in 0..MaxBudget : compress_image(fmt, b)
    \/ Attempt

SpecCmd == InitCmd /\ [][NextCmd]_vars

(***************************************************************************)
(* The resize command of the command line (cli.py), on the same            *)
(* filesystem.                                                             *)
(***************************************************************************)
\* the values click hands to the command: None for an option not given;
\* --maintain-aspect is a flag with default True, so it is True either way
CliWidths == {PyNone, PyInt(0), PyInt(640)}

CliHeights == {PyNone, PyInt(480)}

CliMaintainAspect == {TRUE}

CliFormats == {PyNone, PyStr("jpg"), PyStr("xyz")}

\* the input file's extension, as written
CliExtensions == {"png", "PNG", "mp3"}

\* the command ended with sys.exit(1) after printing msg
Exit1(msg) == Ret(FALSE, msg)

\* resize: the option check, the tool check, the extension check and the
\* call of resize_image with the options as click gave them
resize(width, height, maintain_aspect, format, ext) ==
    LET target_format == IF format.t = "None" THEN ext ELSE format.s
        c == [op |-> "resize", conv |-> "image", fmt |-> target_format,
              quality |-> "medium", budget |-> 0, kw |-> NoKwargs,
              args |-> [width |-> width, height |-> height,
                        maintain_aspect |-> maintain_aspect, format |-> format,
                        ext |-> ext]]
    IN  /\ pc = "idle"
        /\ IF ~Truthy(width) /\ ~Truthy(height)
           THEN ReturnEarly(c, fs, Exit1("Please specify at least width or height"))
           ELSE \E ffmpeg \in VersionRuns, ffprobe \in VersionRuns :
                  IF ~check_ffmpeg_available(ffmpeg, ffprobe).ok
                  THEN ReturnEarly(c, fs, Exit1("FFmpeg not available"))
                  ELSE IF Lower(ext) \notin ImageExtensions
                  THEN ReturnEarly(c, fs, Exit1("Input file is not an image"))
                  ELSE resize_image_call(c, width, height, maintain_aspect, target_format)

NextCli ==
    \E width \in CliWidths, height \in CliHeights, m \in CliMaintainAspect,
       format \in CliFormats, ext \in CliExtensions :
        resize(width, height, m, format, ext)

SpecCli == InitCmd /\ [][NextCli]_vars

(***************************************************************************)
(* The /convert handler (routes/api.py).  Two requests are handled at the  *)
(* same time; a handler's steps are its accesses to the shared folders.    *)
(***************************************************************************)
\* the file names clients upload ("": no file part, or an empty file name)
UploadNames ==
    {Name("", ""), Name("song", "mp3"), Name("clip", "MP4"), Name("pic", "png"),
     Name("notes", "txt"), Name("~", "mp3")}

\* the target_format form values ("": not given)
FormTargets == {"", "mp3"}

\* the uuid4 values already drawn: uuid4 does not return a value twice
DrawnUuids ==
    ({req[r].upload_uuid : r \in Requests} \cup {req[r].output_uuid : r \in Requests})
        \ {NoUuid}

\* the file at a path of the shared folders
Exists(path) == \E f \in store : f.path = path

\* a request's process writes the file at path (creating or replacing it)
WriteFile(path, r) == {f \in store : f.path # path} \cup {[path |-> path, by |-> r]}

cleanup_temp_files_keep(filepath) == store

\* cleanup_temp_files(filepath)
cleanup_temp_files(filepath) == {f \in store : f.path # filepath}

Respond(r, status, success, error) ==
    req' = [req EXCEPT ![r].at = "done",
                       ![r].response = [status |-> status, success |-> success,
                                        error |-> error]]

\* convert_file up to file.save (api.py:35-80)
Receive(r, file, target_format, extract_audio) ==
    /\ req[r].at = "idle"
    /\ UNCHANGED <<convVars, info, utilVars>>
    /\ LET q == [req[r] EXCEPT !.file = file, !.target_format = target_format,
                               !.extract_audio = extract_audio]
       IN  IF file = Name("", "")
           THEN /\ req' = [req EXCEPT ![r] = [q EXCEPT !.at = "done",
                              !.response = [status |-> 400, success |-> FALSE,
                                            error |-> "No file provided"]]]
                /\ UNCHANGED store
           ELSE IF target_format = ""
           THEN /\ req' = [req EXCEPT ![r] = [q EXCEPT !.at = "done",
                              !.response = [status |-> 400, success |-> FALSE,
                                            error |-> "Target format not specified"]]]
                /\ UNCHANGED store
           ELSE IF ~allowed_file(file, ALLOWED_EXTENSIONS)
           THEN /\ req' = [req EXCEPT ![r] = [q EXCEPT !.at = "done",
                              !.response = [status |-> 400, success |-> FALSE,
                                            error |-> "File type not allowed"]]]
                /\ UNCHANGED store
           ELSE \E ffmpeg \in VersionRuns, ffprobe \in VersionRuns :
                  IF ~check_ffmpeg_available(ffmpeg, ffprobe).ok
                  THEN /\ req' = [req EXCEPT ![r] = [q EXCEPT !.at = "done",
                                     !.is_available = "False",
                                     !.response = [status |-> 500, success |-> FALSE,
                                                   error |-> "FFmpeg not available"]]]
                       /\ UNCHANGED store
                  ELSE \E u \in Uuids \ DrawnUuids :
                         LET filename == secure_filename(file)
                             upload_path == Path("uploads", u, filename)
                         IN  /\ store' = WriteFile(upload_path, r)
                             /\ req' = [req EXCEPT ![r] = [q EXCEPT !.at = "saved",
                                            !.is_available = "True",
                                            !.upload_uuid = u,
                                            !.upload_path = upload_path]]

\* get_file_info(upload_path) and generate_unique_filename (api.py:84-89)
Classify(r) ==
    /\ req[r].at = "saved"
    /\ UNCHANGED <<convVars, store, info, utilVars>>
    /\ \E p \in InfoProbes, u \in Uuids \ DrawnUuids :
          LET f == [present |-> Exists(req[r].upload_path), size |-> 1,
                    ext |-> req[r].upload_path.name.ext]
              file_info == get_file_info(f, p)
              out == generate_unique_filename(req[r].upload_path.name,
                                              req[r].target_format, u)
          IN  req' = [req EXCEPT ![r].at = "named",
                                 ![r].file_type = file_info.type,
                                 ![r].output_uuid = u,
                                 ![r].output_path = Path("converted", out.id, out.name)]

Route_videofirst(file_type, extract_audio) ==
    IF file_type = "video" THEN "VideoConverter.convert"
    ELSE IF file_type = "audio" \/ extract_audio THEN "AudioConverter.convert"
    ELSE IF file_type = "image" THEN "ImageConverter.convert"
    ELSE "none"

\* the branch of api.py:95-123 taken for a file type and an extract_audio flag
Route(file_type, extract_audio) ==
    IF file_type = "audio" \/ (file_type = "video" /\ extract_audio)
    THEN IF extract_audio /\ file_type = "video"
         THEN "AudioConverter.extract_audio_from_video"
         ELSE "AudioConverter.convert"
    ELSE IF file_type = "video" THEN "VideoConverter.convert"
    ELSE IF file_type = "image" THEN "ImageConverter.convert"
    ELSE "none"

\* how a converter operation called by the handler can end: it returns
\* (True, "") with or without a file at output_path, returns (False, message)
\* with output_path removed or left as it was, or raises
ConverterEnds == {"written", "nothing_written", "failed_cleaned", "failed", "raised"}

\* the dispatch of api.py:91-123 with the converter call it makes; an
\* exception takes the handler to its except branch (api.py:150-157)
Dispatch(r) ==
    /\ req[r].at = "named"
    /\ UNCHANGED <<convVars, info, utilVars>>
    /\ LET op == Route(req[r].file_type, req[r].extract_audio)
           output_path == req[r].output_path
       IN  IF op = "none"
           THEN /\ req' = [req EXCEPT ![r].at = "converted",
                                      ![r].error_message = "Unsupported file type"]
                /\ UNCHANGED store
           ELSE \E e \in ConverterEnds :
                  LET q == [req[r] EXCEPT !.invoked = Append(@, op)]
                  IN  IF e = "raised"
                      THEN /\ store' = cleanup_temp_files(req[r].upload_path)
                           /\ req' = [req EXCEPT ![r] = [q EXCEPT !.at = "done",
                                          !.response = [status |-> 500, success |-> FALSE,
                                                        error |-> "Conversion error"]]]
                      ELSE /\ store' = IF e = "written" THEN WriteFile(output_path, r)
                                       ELSE IF e = "failed_cleaned"
                                       THEN cleanup_temp_files(output_path)
                                       ELSE store
                           /\ req' = [req EXCEPT ![r] = [q EXCEPT !.at = "converted",
                                          !.success = e \in {"written", "nothing_written"},
                                          !.cleanups = IF e = "failed_cleaned" THEN @ + 1
                                                       ELSE @,
                                          !.error_message =
                                              IF e \in {"written", "nothing_written"} THEN ""
                                              ELSE "failed"]]

\* the rest of the handler: the upload is removed and the response built
\* (api.py:125-148)
Finish(r) ==
    /\ req[r].at = "converted"
    /\ UNCHANGED <<convVars, info, utilVars>>
    /\ IF req[r].success
       THEN /\ store' = cleanup_temp_files(req[r].upload_path)
            /\ Respond(r, 200, TRUE, "")
       ELSE /\ store' = {f \in cleanup_temp_files(req[r].upload_path) :
                            f.path # req[r].output_path}
            /\ req' = [req EXCEPT ![r].at = "done",
                                  ![r].cleanups = @ + 1,
                                  ![r].response = [status |-> 500, success |-> FALSE,
                                                   error |-> "Conversion failed"]]

InitApi ==
    /\ Init
    /\ fs = [inp |-> "file", dir |-> "exists", dirW |-> TRUE, out |-> NoFile, frames |-> FALSE,
            same |-> FALSE]

NextApi ==
    \/ \E r \in Requests, file \in UploadNames, t \in FormTargets, x \in BOOLEAN :
            Receive(r, file, t, x)
    \/ \E r \in Requests : Classify(r)
    \/ \E r \in Requests : Dispatch(r)
    \/ \E r \in Requests : Finish(r)

SpecApi == InitApi /\ [][NextApi]_vars

(***************************************************************************)
(* get_file_info called on its own (the CLI's info command, the /info      *)
(* endpoint) on a path that may or may not name a file.                    *)
(***************************************************************************)
\* what follows the last dot of the path's last component ("": no dot)
InfoExtensions ==
    AudioExtensions \cup VideoExtensions \cup ImageExtensions
        \cup {"MP3", "MP4", "PNG", "txt", "pdf", ""}

InfoFiles == [present : BOOLEAN, size : {1}, ext : InfoExtensions]

get_file_info_call(f, p) ==
    /\ info' = [f |-> f, p |-> p, r |-> get_file_info(f, p)]
    /\ UNCHANGED <<convVars, req, store, utilVars>>

NextInfo == \E f \in InfoFiles, p \in InfoProbes : get_file_info_call(f, p)

SpecInfo == InitApi /\ [][NextInfo]_vars

(***************************************************************************)
(* The blueprint's health endpoint next to a /convert request, the         *)
(* external tools being present or not at each check.                      *)
(***************************************************************************)
\* health_check (routes/api.py): uw and cw are what os.access(folder, W_OK)
\* gives for the upload and the converted folder
health_check(ffmpeg, ffprobe, uw, cw) ==
    LET a == check_ffmpeg_available(ffmpeg, ffprobe)
        status == IF a.ok /\ uw /\ cw THEN "healthy" ELSE "degraded"
    IN  /\ health' = [called |-> TRUE, ffmpeg |-> ffmpeg, ffprobe |-> ffprobe,
                      upload_writable |-> uw, converted_writable |-> cw,
                      status |-> status, error |-> IF ~a.ok THEN a.msg ELSE "None",
                      code |-> IF status = "healthy" THEN 200 ELSE 503]
        /\ UNCHANGED <<convVars, req, store, info, sweep, paths, race>>

NextHealth ==
    \/ \E file \in UploadNames, t \in FormTargets, x \in BOOLEAN : Receive("r1", file, t, x)
    \/ \E ffmpeg \in VersionRuns, ffprobe \in VersionRuns, uw \in BOOLEAN, cw \in BOOLEAN :
            health_check(ffmpeg, ffprobe, uw, cw)

SpecHealth == InitApi /\ [][NextHealth]_vars

(***************************************************************************)
(* Which files a conversion's paths name: for validate_input_file and      *)
(* validate_output_path, which run in the calling process, and for the     *)
(* external tool, which run_ffmpeg_command starts with cwd=TEMP_FOLDER.     *)
(***************************************************************************)
\* temp is what self.config.TEMP_FOLDER gives inside run_ffmpeg_command's
\* try block; when the lookup raises, no process is started
RunWithPaths(caller, input_path, output_path, temp, cwd) ==
    LET tool_cwd == Resolve(cwd, temp.value)
    IN  [called |-> TRUE, caller |-> caller, input_path |-> input_path,
         output_path |-> output_path, cwd |-> cwd, temp |-> temp, ran |-> temp.ok,
         checked_input |-> Resolve(cwd, input_path),
         checked_output |-> Resolve(cwd, output_path),
         tool_input |-> IF temp.ok THEN Resolve(tool_cwd, input_path) ELSE <<>>,
         tool_output |-> IF temp.ok THEN Resolve(tool_cwd, output_path) ELSE <<>>]

\* the paths convert_file builds and hands, with current_app.config, to a
\* converter
convert_file_paths(UPLOAD_FOLDER, CONVERTED_FOLDER, cwd) ==
    /\ paths' = RunWithPaths("convert_file", os_path_join(UPLOAD_FOLDER, "uuid_song.mp3"),
                              os_path_join(CONVERTED_FOLDER, "song_1b9d6bcd.wav"),
                              FlaskConfig_TEMP_FOLDER, cwd)
    /\ UNCHANGED <<convVars, req, store, info, health, sweep, race>>

\* the paths the CLI's convert command hands, with get_config()'s object, to
\* a converter
cli_convert_paths(input_file, output_file, TEMP_FOLDER, cwd) ==
    /\ paths' = RunWithPaths("cli", input_file, output_file,
                              Config_TEMP_FOLDER(TEMP_FOLDER), cwd)
    /\ UNCHANGED <<convVars, req, store, info, health, sweep, race>>

NextPaths ==
    \/ \E u \in UploadFolders, c \in ConvertedFolders, cwd \in WorkingDirs :
            convert_file_paths(u, c, cwd)
    \/ \E i \in CliInputs, o \in CliOutputs, t \in TempFolders, cwd \in WorkingDirs :
            cli_convert_paths(i, o, t, cwd)

SpecPaths == InitApi /\ [][NextPaths]_vars

(***************************************************************************)
(* Two conversions whose output_path is the same path, step by step: the   *)
(* steps are the system calls of validate_output_path and the start and    *)
(* end of the transcoder's run.                                            *)
(***************************************************************************)
OtherWrote(c) == race.file.exists /\ race.file.by # c

\* os.path.exists(output_path) (an existing writable file ends the validation)
CheckExists(c) ==
    /\ race.at[c] = "idle"
    /\ race' = [race EXCEPT !.at[c] = IF race.file.exists THEN "validated" ELSE "open"]
    /\ UNCHANGED <<convVars, req, store, info, health, sweep, paths>>

\* with open(output_path, 'w'): creates the file, or truncates the one that
\* has appeared since the check
OpenProbe(c) ==
    /\ race.at[c] = "open"
    /\ race' = [race EXCEPT !.at[c] = "remove",
                            !.file = [exists |-> TRUE, by |-> c, kind |-> "probe"],
                            !.harm[c] = IF OtherWrote(c)
                                        THEN @ \cup {<<"truncated", race.file.kind>>}
                                        ELSE @]
    /\ UNCHANGED <<convVars, req, store, info, health, sweep, paths>>

\* os.remove(output_path): removes whatever is at the path now; with no
\* file there it raises and the validation returns (False, ...)
RemoveProbe(c) ==
    /\ race.at[c] = "remove"
    /\ race' = IF race.file.exists
               THEN [race EXCEPT !.at[c] = "validated",
                                 !.file = NoShared,
                                 !.harm[c] = IF OtherWrote(c)
                                             THEN @ \cup {<<"removed", race.file.kind>>}
                                             ELSE @]
               ELSE [race EXCEPT !.at[c] = "failed"]
    /\ UNCHANGED <<convVars, req, store, info, health, sweep, paths>>

\* run_ffmpeg_command: the transcoder (started with -y) opens its output
ToolStart(c) ==
    /\ race.at[c] = "validated"
    /\ race' = [race EXCEPT !.at[c] = "writing",
                            !.file = [exists |-> TRUE, by |-> c, kind |-> "output"]]
    /\ UNCHANGED <<convVars, req, store, info, health, sweep, paths>>

\* the transcoder exits
ToolEnd(c) ==
    /\ race.at[c] = "writing"
    /\ race' = [race EXCEPT !.at[c] = "done"]
    /\ UNCHANGED <<convVars, req, store, info, health, sweep, paths>>

NextRace ==
    \/ \E c \in Conversions : CheckExists(c)
    \/ \E c \in Conversions : OpenProbe(c)
    \/ \E c \in Conversions : RemoveProbe(c)
    \/ \E c \in Conversions : ToolStart(c)
    \/ \E c \in Conversions : ToolEnd(c)

SpecRace == InitApi /\ [][NextRace]_vars

(***************************************************************************)
(* The periodic sweep of a folder (cleanup_directory called on its own).   *)
(***************************************************************************)
cleanup_directory_call(directory, max_age_hours) ==
    /\ sweep' = [called |-> TRUE, before |-> directory, max_age_hours |-> max_age_hours,
                 after |-> cleanup_directory(directory, max_age_hours)]
    /\ UNCHANGED <<convVars, req, store, info, health, paths, race>>

NextSweep ==
    \E directory \in SweepDirectories, h \in MaxAgeHours : cleanup_directory_call(directory, h)

SpecSweep == InitApi /\ [][NextSweep]_vars

(***************************************************************************)
(* Properties                                                              *)
(***************************************************************************)
Returned == pc = "done" /\ ~result.raised

Failure == Returned /\ ~result.success

Success == Returned /\ result.success

InCompress == call.op = "compress_image" /\ pc \in {"attempt", "done"}

\* the ladders as the specification lists them
ClaimLadder(fmt) ==
    IF fmt \in {"jpg", "jpeg"} THEN <<"5", "10", "15", "20", "25", "30">>
    ELSE IF fmt = "webp" THEN <<"90", "80", "70", "60", "50", "40", "30">>
    ELSE <<>>

ClaimFlag(fmt) == IF fmt = "webp" THEN "-quality" ELSE "-q:v"

\* the invocations made so far are the first entries of the listed ladder,
\* each once and in order (one invocation only for a format without ladder)
InLadderOrder ==
    IF call.fmt \in {"jpg", "jpeg", "webp"}
    THEN /\ Len(calls) <= Len(ClaimLadder(call.fmt))
         /\ \A k \in 1..Len(calls) :
               calls[k] = <<"ffmpeg", "-i", InputPath, "-y", ClaimFlag(call.fmt),
                            ClaimLadder(call.fmt)[k], OutputPath>>
    ELSE Len(calls) <= 1

\* the last invocation exited 0 and the file then found at output_path is
\* within the budget
LastFits ==
    /\ Len(calls) >= 1
    /\ lastRun.o.kind = "exit" /\ lastRun.o.code = 0
    /\ lastRun.size >= 0 /\ lastRun.size <= call.budget

\* C1: whenever convert (of any of the three converters) returns failure, no
\* file exists at output_path, also when one existed before the call.
C1_NoOutputAfterFailedConvert ==
    (call.op = "convert" /\ Failure) => ~fs.out.exists

\* C2: whenever compress_image returns failure after invoking the external
\* tool (first invocation failed, an invocation of the ladder failed, ladder
\* exhausted, no ladder and first output over the budget), no file exists at
\* output_path.
C2_NoOutputAfterFailedCompress ==
    (call.op = "compress_image" /\ Failure /\ Len(calls) >= 1) => ~fs.out.exists

AllOver ==
    /\ Len(calls) >= 1 /\ failed = 0
    /\ minSize > call.budget /\ lastRun.size > call.budget

\* number of settings compress_image has for the call's format
LadderLength ==
    IF call.fmt \in {"jpg", "jpeg", "webp"} THEN Len(ClaimLadder(call.fmt)) ELSE 1

\* compress_image returned its "could not compress to target size" failure
Unreachable == Failure /\ result.msg = "Could not compress image to target size"

Exhausted ==
    /\ InCompress /\ Unreachable
    /\ call.fmt \in {"jpg", "jpeg", "webp"}

InputOps ==
    {"convert", "extract_audio_from_video", "normalize_audio", "resize_image",
     "compress_image", "image_create_thumbnail", "video_create_thumbnail",
     "extract_frames", "compress_video"}

\* C7: an operation called with an input path that does not exist, is not a
\* regular file or is not readable returns failure and invokes no external
\* process.
C7_BadInputNoInvocation ==
    (call.op \in InputOps /\ fs0.inp # "file") =>
        /\ calls = <<>>
        /\ pc = "done" => Failure

\* the allow-lists as the specification lists them
ClaimAllowList ==
    [c \in {"audio", "video", "image"} |->
        IF c = "audio" THEN {"mp3", "wav", "flac", "aac", "ogg", "m4a"}
        ELSE IF c = "video" THEN {"mp4", "avi", "mov", "webm", "mkv"}
        ELSE {"jpg", "jpeg", "png", "webp", "gif", "bmp"}]

\* the operations that check a target format
FormatOps ==
    {"convert", "extract_audio_from_video", "normalize_audio", "resize_image",
     "compress_image", "image_create_thumbnail"}

UnsupportedMsgs == {"Unsupported target format", "Unsupported audio format"}

ValidationMsgs ==
    {"Input file not found", "Input path is not a file", "Cannot read input file",
     "Cannot create output directory", "Cannot write to existing output file",
     "Cannot write to output path"}

AllowListFixed ==
    /\ supported = ClaimAllowList
    /\ (call.op = "get_supported_formats" /\ pc = "done") =>
            (Success /\ result.formats = ClaimAllowList[call.conv])

\* C8 (as stated): the allow-lists are fixed, and an operation given a target
\* format outside its converter's list returns an 'Unsupported' failure,
\* raises nothing and invokes no external process; a format in the list is
\* never rejected as unsupported.
C8_UnsupportedAlwaysReported ==
    /\ AllowListFixed
    /\ (call.op \in FormatOps /\ pc # "idle") =>
          IF call.fmt \in ClaimAllowList[call.conv]
          THEN ~(pc = "done" /\ result.msg \in UnsupportedMsgs)
          ELSE /\ calls = <<>> /\ Failure
               /\ result.msg \in UnsupportedMsgs

\* C8 (amended): as stated, except that convert reports a failed input or
\* output-path validation before it looks at the format: for a format outside
\* the list the failure is the 'Unsupported' one unless that validation has
\* already failed; in both cases nothing is raised and no process is invoked.
C8_UnsupportedNeverInvokes ==
    /\ AllowListFixed
    /\ (call.op \in FormatOps /\ pc # "idle") =>
          IF call.fmt \in ClaimAllowList[call.conv]
          THEN ~(pc = "done" /\ result.msg \in UnsupportedMsgs)
          ELSE /\ calls = <<>> /\ Failure
               /\ IF call.op = "convert"
                     /\ ~(validate_input_file(fs0).success
                           /\ validate_output_path(fs0).ret.success)
                  THEN result.msg \in ValidationMsgs
                  ELSE result.msg \in UnsupportedMsgs

C8_Witness ==
    /\ call.op = "convert" /\ call.conv = "image" /\ call.fmt = "tiff"
    /\ Failure /\ result.msg = "Unsupported target format" /\ calls = <<>>

\* the output file can be created: its directory exists and is writable, or
\* is missing and can be created
Creatable(f) == IF f.dir = "exists" THEN f.dirW ELSE f.dir = "creatable"

\* C9: validate_output_path returns (True, "") exactly when the output
\* directory exists or can be created and the output file is an existing
\* writable file or can be created, and (False, message) otherwise, without
\* raising; it leaves the file at output_path as it found it (none where
\* there was none) and changes nothing but a missing directory it creates.
C9_ValidateOutputPathFrame ==
    (call.op = "validate_output_path" /\ pc = "done") =>
        /\ ~result.raised
        /\ result.success <=>
              /\ fs0.dir \in {"exists", "creatable"}
              /\ IF fs0.out.exists THEN fs0.out.writable ELSE Creatable(fs0)
        /\ IF result.success THEN result.msg = "" ELSE result.msg \in ValidationMsgs
        /\ fs.out = fs0.out /\ fs.inp = fs0.inp /\ fs.frames = fs0.frames
        /\ fs.dir # fs0.dir => (fs0.dir = "creatable" /\ fs.dir = "exists")

C9_Witness ==
    /\ call.op = "validate_output_path" /\ pc = "done" /\ result.success
    /\ fs0.dir = "creatable" /\ fs.dir = "exists" /\ ~fs.out.exists

\* C10: run_ffmpeg_command reports success exactly when the process ran to
\* completion with exit code 0, whatever it wrote to stdout and stderr.
C10_ExitCodeDecides ==
    lastRun.o.kind # "none" =>
        (lastRun.r.ok <=> (lastRun.o.kind = "exit" /\ lastRun.o.code = 0))

C10_Witness ==
    /\ lastRun.o.kind = "exit" /\ lastRun.o.code = 0
    /\ lastRun.o.stderr = "text" /\ lastRun.r.ok

\* the operations that call cleanup_on_error when their one transcoder run
\* is reported failed
CleanupOps ==
    {"convert", "extract_audio_from_video", "normalize_audio", "resize_image",
     "image_create_thumbnail", "video_create_thumbnail", "compress_video"}

\* the last transcoder run did not end with exit code 0
RunFailed == lastRun.o.kind \in {"timeout", "oserror"} \/ (lastRun.o.kind = "exit" /\ lastRun.o.code # 0)

\* the argument list get_video_info hands to subprocess.run itself
IsProbe(cmd) == cmd[1] = "ffprobe"

\* the shape every transcoder argument list has
WellFormed(cmd) ==
    /\ Len(cmd) >= 5 /\ cmd[1] = "ffmpeg"
    /\ \E i \in 2..(Len(cmd) - 2) : cmd[i] = "-i" /\ cmd[i + 1] = InputPath
    /\ \E i \in 2..(Len(cmd) - 1) : cmd[i] = "-y"
    /\ cmd[Len(cmd)] = (IF call.op = "extract_frames"
                        THEN (IF call.fmt = "jpg" THEN "output_dir/frame_%04d.jpg"
                              ELSE "output_dir/frame_%04d.xyz")
                        ELSE OutputPath)

\* C12: every argument list handed to run_ffmpeg_command begins with the
\* tool name, contains the input flag followed by the input path, contains
\* -y, and ends with the output path (the output pattern for extract_frames),
\* for every format, preset and optional argument.
C12_ArgumentListShape ==
    \A k \in 1..Len(calls) : ~IsProbe(calls[k]) => WellFormed(calls[k])

C12_Witness ==
    /\ call.op = "convert" /\ call.conv = "image" /\ call.fmt = "webp"
    /\ call.kw.resolution = PyTuple /\ call.kw.qscale = PyInt(7)
    /\ calls = <<(<<"ffmpeg", "-i", InputPath, "-y", "-quality", "7", "-vf",
                    "scale=640:480", OutputPath>>)>>

\* cmd without the video-suppression flag
WithoutVn(cmd) == SelectSeq(cmd, LAMBDA a : a # "-vn")

\* C13: for every supported audio format and every preset, the argument list
\* extract_audio_from_video hands to the tool is the one the audio command
\* builder builds for the same input, output, format and preset, with -vn
\* added: same codec, bitrate, sample-rate and channel arguments.
C13_ExtractionEqualsBuilderPlusVn ==
    (call.op = "extract_audio_from_video" /\ calls # <<>>) =>
        /\ \E i \in 1..Len(calls[1]) : calls[1][i] = "-vn"
        /\ WithoutVn(calls[1]) = Audio_build_ffmpeg_command(call.fmt, call.quality, NoKwargs)

\* the handler of request r is past its dispatch
Dispatched(r) == req[r].at = "converted" \/ (req[r].at = "done" /\ req[r].file_type # "")

\* the routing as the specification states it
ClaimRoute(kind, extract_audio) ==
    CASE kind = "video" /\ extract_audio -> <<"AudioConverter.extract_audio_from_video">>
      [] kind = "audio" -> <<"AudioConverter.convert">>
      [] kind = "video" /\ ~extract_audio -> <<"VideoConverter.convert">>
      [] kind = "image" -> <<"ImageConverter.convert">>
      [] OTHER -> <<>>

\* C14: in the /convert dispatcher at most one converter operation is invoked
\* per request: video with extract_audio goes to extract_audio_from_video and
\* never to VideoConverter, audio to AudioConverter.convert whatever the
\* flag, video without the flag to VideoConverter.convert, image to
\* ImageConverter.convert; unknown invokes no converter and the response is
\* a failure.
C14_OneRoutePerRequest ==
    \A r \in Requests :
        /\ Len(req[r].invoked) <= 1
        /\ IF Dispatched(r)
           THEN /\ req[r].file_type \in {"audio", "video", "image", "unknown"}
                /\ req[r].invoked = ClaimRoute(req[r].file_type, req[r].extract_audio)
                /\ (req[r].file_type = "unknown" /\ req[r].at = "done") =>
                       (~req[r].response.success /\ req[r].response.status = 500)
           ELSE req[r].invoked = <<>>

C14_Witness ==
    /\ req["r1"].file_type = "video" /\ req["r1"].extract_audio
    /\ req["r1"].invoked = <<"AudioConverter.extract_audio_from_video">>
    /\ req["r2"].file_type = "unknown" /\ req["r2"].at = "done"
    /\ req["r2"].invoked = <<>> /\ req["r2"].response.status = 500

\* the operations that take a quality preset
QualityOps == {"convert", "extract_audio_from_video"}

\* the argument list the call in progress builds when given quality q
CmdFor(q) ==
    IF call.op = "convert" THEN _build_ffmpeg_command(call.conv, call.fmt, q, call.kw)
    ELSE ExtractAudioCmd(call.fmt, q)

\* C15: for every converter and supported target format, a quality value
\* outside {low, medium, high} gives exactly the argument list of quality
\* medium and produces no error: nothing is raised, and the call fails only
\* when the tool's run does.
C15_UnknownQualityIsMedium ==
    (/\ call.op \in QualityOps /\ pc = "done"
     /\ call.quality \notin {"low", "medium", "high"}
     /\ call.fmt \in supported[call.conv]) =>
        /\ ~result.raised
        /\ calls = <<CmdFor("medium")>>
        /\ Success <=> lastRun.r.ok

C15_Witness ==
    /\ call.op = "convert" /\ call.conv = "image" /\ call.fmt = "webp"
    /\ call.quality = "ultra" /\ call.kw = NoKwargs /\ Success
    /\ calls = <<(<<"ffmpeg", "-i", InputPath, "-y", "-quality", "60", OutputPath>>)>>

\* the flag of the quality parameter in the commands for (conv, fmt), "" if
\* the specification lists none
QualityFlag(conv, fmt) ==
    CASE conv = "audio" /\ fmt \in {"mp3", "aac", "ogg", "m4a"} -> "-b:a"
      [] conv = "video" /\ fmt \in {"mp4", "avi", "mov", "mkv", "webm"} -> "-crf"
      [] conv = "image" /\ fmt \in {"jpg", "jpeg"} -> "-q:v"
      [] conv = "image" /\ fmt = "webp" -> "-quality"
      [] OTHER -> ""

\* the element that follows flag in cmd ("" if flag is not in cmd)
ParamAfter(cmd, flag) ==
    IF \E i \in 1..(Len(cmd) - 1) : cmd[i] = flag
    THEN cmd[(CHOOSE i \in 1..(Len(cmd) - 1) : cmd[i] = flag) + 1]
    ELSE ""

\* the number a parameter value denotes (kbit/s for a bitrate)
Num(v) ==
    CASE v = "128k" -> 128 [] v = "192k" -> 192 [] v = "320k" -> 320 [] v = "64k" -> 64
      [] v = "0" -> 0 [] v = "5" -> 5 [] v = "7" -> 7 [] v = "10" -> 10 [] v = "15" -> 15
      [] v = "18" -> 18 [] v = "20" -> 20 [] v = "23" -> 23 [] v = "25" -> 25
      [] v = "28" -> 28 [] v = "30" -> 30 [] v = "60" -> 60 [] v = "90" -> 90
      [] OTHER -> -1

\* the value of the quality parameter the call in progress emits for preset q
Emitted(q) == ParamAfter(CmdFor(q), QualityFlag(call.conv, call.fmt))

\* C16: for every (kind, target format) whose command carries a quality
\* parameter, the values emitted for low, medium and high are pairwise
\* distinct, and low never denotes a higher quality than high (bitrate and
\* webp quality: low < high; CRF and jpeg qscale: low > high).
C16_PresetsDistinctAndOrdered ==
    (/\ call.op = "convert" /\ calls # <<>>
     /\ QualityFlag(call.conv, call.fmt) # ""
     /\ call.kw = NoKwargs /\ call.quality \in {"low", "medium", "high"}) =>
        /\ ParamAfter(calls[1], QualityFlag(call.conv, call.fmt)) = Emitted(call.quality)
        /\ Emitted("low") # Emitted("medium") /\ Emitted("medium") # Emitted("high")
        /\ Emitted("low") # Emitted("high")
        /\ IF QualityFlag(call.conv, call.fmt) \in {"-b:a", "-quality"}
           THEN Num(Emitted("low")) < Num(Emitted("high"))
           ELSE Num(Emitted("low")) > Num(Emitted("high"))

\* the override the caller of the call in progress supplied for the
\* converter's quality parameter (PyNone: none supplied)
Override ==
    IF call.conv = "audio" THEN call.kw.bitrate
    ELSE IF call.conv = "video" THEN call.kw.crf ELSE call.kw.qscale

\* C17: whenever the caller supplies an override for bitrate, crf or qscale,
\* the built command carries the override value and not the preset-derived
\* one, for every supplied value, 0 included, and every target format whose
\* command carries the parameter.
C17_OverrideWins ==
    (/\ call.op = "convert" /\ calls # <<>>
     /\ QualityFlag(call.conv, call.fmt) # "" /\ Override # PyNone) =>
        ParamAfter(calls[1], QualityFlag(call.conv, call.fmt)) = Override.s

\* C18: every public converter operation returns a (success, message) value
\* for every input and every behaviour of the tool and the prober, the tool
\* exiting 0 without an output file and the prober returning no duration
\* included: no exception reaches the caller.
C18_NoExceptionEscapes ==
    (call.op \in InputOps /\ pc = "done") => ~result.raised

\* the type the extension sets give a lower-cased extension
ClaimType(ext) ==
    IF ext \in {"mp3", "wav", "flac", "aac", "ogg", "m4a"} THEN "audio"
    ELSE IF ext \in {"mp4", "avi", "mov", "wmv", "flv", "mkv", "webm"} THEN "video"
    ELSE IF ext \in {"jpg", "jpeg", "png", "gif", "bmp", "tiff", "webp"} THEN "image"
    ELSE "unknown"

\* get_file_info has been called
InfoCalled == info.p.kind # "none"

\* the probe did not deliver metadata
ProbeFailed == info.p.kind \in {"absent", "nonzero", "timeout", "malformed", "empty"}

\* C19 (as stated): get_file_info decides the type from the lower-cased
\* extension alone and no outcome of the probe changes it or raises; a failed
\* probe only leaves duration, width and height unset.
C19_TypeFromExtensionAlone ==
    InfoCalled =>
        /\ ~info.r.raised
        /\ info.r.type = ClaimType(Lower(info.f.ext))
        /\ ProbeFailed => (~info.r.duration /\ ~info.r.dims)

\* C19 (amended): for a path whose size can be read, the type is decided by
\* the lower-cased extension alone, whatever the probe comes to, and a failed
\* probe only leaves duration, width and height unset; for a path whose size
\* cannot be read (no such file) the result is type unknown with size 0 and an
\* error text, whatever the extension.  Nothing is raised in either case.
C19_TypeFromExtensionOfReadableFile ==
    InfoCalled =>
        /\ ~info.r.raised
        /\ IF info.f.present
           THEN /\ info.r.type = ClaimType(Lower(info.f.ext))
                /\ info.r.size = info.f.size /\ ~info.r.error
           ELSE info.r.type = "unknown" /\ info.r.size = 0 /\ info.r.error
        /\ ProbeFailed => (~info.r.duration /\ ~info.r.dims)

C19_Witness ==
    /\ info.f.present /\ info.f.ext = "MP4" /\ info.p.kind = "timeout"
    /\ info.r.type = "video" /\ ~info.r.duration /\ ~info.r.dims

\* C20: for any two concurrent /convert requests, in any interleaving, the
\* upload paths differ and the output paths differ, so that no file at a
\* request's paths was written by the other request, also when both upload
\* a file of the same name and ask for the same target format.
C20_RequestPathsDisjoint ==
    \A r, q \in Requests :
        r # q =>
            /\ req[r].upload_path # NoPath => req[r].upload_path # req[q].upload_path
            /\ req[r].output_path # NoPath => req[r].output_path # req[q].output_path
            /\ \A f \in store :
                  f.path \in {req[r].upload_path, req[r].output_path} => f.by = r

\* C11: run_ffmpeg_command raises nothing: for a process that exceeds the
\* timeout or cannot be started it returns (False, "", detail), the detail of
\* a timeout being the "timed out" text, that of a nonzero exit the tool's own
\* stderr; the caller passes the detail on and cleans the output up in the
\* same way after a timeout and after a nonzero exit.
C11_TimeoutReturnedAndCleaned ==
    /\ lastRun.o.kind = "timeout" =>
            lastRun.r = [ok |-> FALSE, stdout |-> "", stderr |-> "FFmpeg command timed out"]
    /\ lastRun.o.kind = "oserror" =>
            lastRun.r = [ok |-> FALSE, stdout |-> "", stderr |-> "Error running FFmpeg command"]
    /\ (lastRun.o.kind = "exit" /\ lastRun.o.code # 0) =>
            (~lastRun.r.ok /\ lastRun.r.stderr = lastRun.o.stderr)
    /\ (call.op \in CleanupOps /\ pc = "done" /\ RunFailed) =>
            /\ Failure /\ result.stderr = lastRun.r.stderr
            /\ fs.out.exists => ~fs.dirW

C11_Witness ==
    /\ call.op = "convert" /\ call.conv = "video" /\ Failure
    /\ lastRun.o.kind = "timeout" /\ lastRun.o.write = "partial"
    /\ result.stderr = "FFmpeg command timed out" /\ ~fs.out.exists

\* the request reached the conversion and was answered with a failure
FailedConversion(r) ==
    /\ req[r].at = "done" /\ req[r].output_path # NoPath
    /\ ~req[r].response.success

\* C21: on every failure path of a conversion request the removal of the
\* output path is performed exactly once, and cleanup_on_error changes
\* nothing when no file is at the path or when it is called a second time.
C21_OutputCleanedExactlyOnce ==
    /\ \A r \in Requests : FailedConversion(r) => req[r].cleanups = 1
    /\ ~fs.out.exists => cleanup_on_error(fs) = fs
    /\ cleanup_on_error(cleanup_on_error(fs)) = cleanup_on_error(fs)

\* C22: once convert_file has saved the upload, the file at upload_path no
\* longer exists when the response is returned, whether the conversion
\* succeeded, returned failure or raised.
C22_UploadGoneAtResponse ==
    \A r \in Requests :
        (req[r].at = "done" /\ req[r].upload_path # NoPath) => ~Exists(req[r].upload_path)

C22_Witness ==
    /\ req["r1"].at = "done" /\ req["r1"].upload_path # NoPath
    /\ req["r1"].response.error = "Conversion error" /\ ~Exists(req["r1"].upload_path)
    /\ req["r2"].at = "done" /\ req["r2"].upload_path # NoPath
    /\ req["r2"].response.error = "Conversion failed" /\ ~Exists(req["r2"].upload_path)

\* the tool is available: both version runs exit 0
Available(ffmpeg, ffprobe) == ffmpeg = "ok" /\ ffprobe = "ok"

\* C23: when check_ffmpeg_available reports the tool unavailable, /convert
\* answers with an error response, having saved no upload and invoked no
\* converter, and health_check answers 'degraded' with 503; health_check
\* answers 'healthy' with 200 exactly when the tool is available and both the
\* upload and the converted folder are writable.
C23_UnavailableIsAnswered ==
    /\ \A r \in Requests :
          req[r].is_available = "False" =>
              /\ req[r].at = "done"
              /\ req[r].response.status >= 400 /\ ~req[r].response.success
              /\ req[r].upload_path = NoPath /\ ~\E f \in store : f.by = r
              /\ req[r].invoked = <<>>
    /\ health.called =>
          /\ ~Available(health.ffmpeg, health.ffprobe) =>
                 (health.status = "degraded" /\ health.code = 503)
          /\ (health.status = "healthy" /\ health.code = 200) <=>
                 /\ Available(health.ffmpeg, health.ffprobe)
                 /\ health.upload_writable /\ health.converted_writable
          /\ health.status = "healthy" <=> health.code = 200

C23_Witness ==
    /\ req["r1"].is_available = "False" /\ req["r1"].response.status = 500
    /\ health.called /\ health.ffmpeg = "ok" /\ health.ffprobe = "notfound"
    /\ health.upload_writable /\ health.converted_writable
    /\ health.status = "degraded" /\ health.code = 503

\* C24: whenever convert returns success, a file exists at output_path when
\* the call returns.
C24_SuccessMeansOutputExists ==
    (call.op = "convert" /\ Success) => fs.out.exists

\* C25: cleanup_directory removes every regular file of the directory whose
\* age exceeds max_age_hours * 3600 seconds and leaves every younger file
\* and every entry that is not a file in place.
C25_OldFilesRemoved ==
    sweep.called =>
        \A e \in SweepNames :
            IF sweep.before[e].kind = "file"
                   /\ sweep.before[e].age > sweep.max_age_hours * 3600
            THEN sweep.after[e].kind = "none"
            ELSE sweep.after[e] = sweep.before[e]

\* the argument lists handed to the transcoder (not to the prober)
TranscoderRuns == SelectSeq(calls, LAMBDA cmd : ~IsProbe(cmd))

ClaimFilters(maintain_aspect) ==
    IF maintain_aspect
    THEN {"scale=640:480:force_original_aspect_ratio=decrease",
          "scale=640:-1:force_original_aspect_ratio=decrease",
          "scale=-1:480:force_original_aspect_ratio=decrease",
          "scale=0:480:force_original_aspect_ratio=decrease"}
    ELSE {"scale=640:480", "scale=640:-1", "scale=-1:480", "scale=0:480"}

\* C27: the resize command accepts a request that gives only the width or
\* only the height, and the scale filter handed to the external tool always
\* has the form WIDTH:HEIGHT with both parts valid for the tool (no unset
\* dimension), with the aspect modifier exactly when maintain_aspect holds.
C27_ResizeFilterWellFormed ==
    (call.op = "resize" /\ pc = "done") =>
        /\ (Truthy(call.args.width) \/ Truthy(call.args.height)) =>
               result.msg # "Please specify at least width or height"
        /\ calls # <<>> =>
               ParamAfter(calls[1], "-vf") \in ClaimFilters(call.args.maintain_aspect)

\* the operations C28 lists
NamedOps ==
    {"convert", "extract_audio_from_video", "normalize_audio", "resize_image",
     "compress_image", "image_create_thumbnail", "video_create_thumbnail"}

\* C28: no converter operation removes the input file: after a call of
\* convert, extract_audio_from_video, normalize_audio, resize_image,
\* compress_image or create_thumbnail, successful or failed, the file that
\* was at input_path is still there, also when output_path is input_path.
C28_InputNeverRemoved ==
    (call.op \in NamedOps /\ fs0.inp # "missing") => fs.inp # "missing"

\* C29: the files validate_input_file and validate_output_path check are the
\* files the external tool reads and writes: the working directory pinned to
\* TEMP_FOLDER does not change what the input and output paths of the
\* argument list name, relative paths included.
C29_SameFilesCheckedAndUsed ==
    (paths.called /\ paths.ran) =>
        /\ paths.tool_input = paths.checked_input
        /\ paths.tool_output = paths.checked_output

\* C30: validate_output_path only ever removes the empty probe file it
\* created itself: when two conversions have the same output path and their
\* steps interleave, the validation of one never truncates or deletes a
\* file the other has created or is writing.
C30_OnlyOwnProbeRemoved ==
    \A c \in Conversions : race.harm[c] = {}

====
